---- MODULE Spec2Model ----
(***************************************************************************)
(* W3C date-time parser and formatter of chrono-utils.                     *)
(*                                                                         *)
(* The input is a sequence of characters (one-character strings), as the   *)
(* helpers index a Vec<char>.  The driver parse_w3c_datetime is a chain of *)
(* scanner calls joined by try!; every scanner call is one action, and pc  *)
(* names the call site the driver is at.  A run ends when result is set.   *)
(*                                                                         *)
(* Library behaviour the code relies on is modelled by what it does:       *)
(* str::parse for u32 takes an optional leading '+' (for i32 also '-');    *)
(* chrono resolves dates by the proleptic Gregorian calendar, stores the   *)
(* UTC instant with the offset, and prints %.f with 3, 6 or 9 digits.      *)
(***************************************************************************)
EXTENDS Integers, Sequences, FiniteSets, TLC

----------------------------------------------------------------------------
(* Characters and integer literals (str::parse::<u32>, str::parse::<i32>)   *)

DigitChars == <<"0", "1", "2", "3", "4", "5", "6", "7", "8", "9">>

\* char::is_digit(10): the ASCII decimal digits only
is_digit(c) == \E i \in 1..10 : DigitChars[i] = c

DigitValue(c) == (CHOOSE i \in 1..10 : DigitChars[i] = c) - 1

AllDigits(text) == \A i \in 1..Len(text) : is_digit(text[i])

RECURSIVE DigitsValue(_)
DigitsValue(text) ==
    IF text = <<>> THEN 0
    ELSE DigitsValue(SubSeq(text, 1, Len(text) - 1)) * 10 + DigitValue(text[Len(text)])

\* &str[begin..end] over the character vector; begin and end are 0-based
get_text(str, begin, end) == SubSeq(str, begin + 1, end)

NoValue == [ok |-> FALSE, value |-> 0]

\* text.parse::<u32>(): an optional '+', then one or more decimal digits.
\* The texts parsed here have at most 9 characters, so the value fits 32 bits.
ParseU32Text(text) ==
    IF text # <<>> /\ text[1] = "+"
    THEN IF Len(text) > 1 /\ AllDigits(Tail(text))
         THEN [ok |-> TRUE, value |-> DigitsValue(Tail(text))]
         ELSE NoValue
    ELSE IF text # <<>> /\ AllDigits(text)
         THEN [ok |-> TRUE, value |-> DigitsValue(text)]
         ELSE NoValue

\* text.parse::<i32>(): an optional '+' or '-', then one or more decimal digits
ParseI32Text(text) ==
    IF text # <<>> /\ text[1] = "-"
    THEN IF Len(text) > 1 /\ AllDigits(Tail(text))
         THEN [ok |-> TRUE, value |-> 0 - DigitsValue(Tail(text))]
         ELSE NoValue
    ELSE ParseU32Text(text)

----------------------------------------------------------------------------
(* Error model (error.rs)                                                   *)

NoError == [error_kind |-> "None", position_begin |-> 0, position_end |-> 0]

ParseError_invalid(error_kind, position, length) ==
    [error_kind |-> error_kind, position_begin |-> position,
     position_end |-> position + length]

invalid_format(position, length) ==
    ParseError_invalid("InvalidFormat", position, length)

invalid_token(position, length) ==
    ParseError_invalid("InvalidToken", position, length)

invalid_low_value(position, length) ==
    ParseError_invalid("InvalidLowValue", position, length)

invalid_high_value(position, length) ==
    ParseError_invalid("InvalidHighValue", position, length)

\* A scanner call returns its ParseResult together with the cursor it leaves
\* behind (position is a &mut usize of the caller).
Ok(value, position) ==
    [ok |-> TRUE, value |-> value, position |-> position, error |-> NoError]

Err(error, position) ==
    [ok |-> FALSE, value |-> 0, position |-> position, error |-> error]

----------------------------------------------------------------------------
(* Field scanner (helper.rs)                                                *)

YearWidth == 4
FieldWidth == 2
MaxNanoDigits == 9

parse_i32(str, position, length, error_kind) ==
    LET text == get_text(str, position, position + length)
        r == ParseI32Text(text)
    IN  IF Len(str) >= position + length /\ r.ok
        THEN Ok(r.value, position + length)
        ELSE Err(ParseError_invalid(error_kind, position, length), position)

parse_u32(str, position, length, error_kind) ==
    LET text == get_text(str, position, position + length)
        r == ParseU32Text(text)
    IN  IF Len(str) >= position + length /\ r.ok
        THEN Ok(r.value, position + length)
        ELSE Err(ParseError_invalid(error_kind, position, length), position)

parse_full_year(str, position) ==
    parse_i32(str, position, YearWidth, "InvalidYear")

\* validate_range that skips the field once more when it places the error
validate_range_skips(result, min, max, length) ==
    IF result.ok /\ result.value < min
    THEN Err(invalid_low_value(result.position + length, length), result.position)
    ELSE IF result.ok /\ result.value > max
    THEN Err(invalid_high_value(result.position + length, length), result.position)
    ELSE result

\* result is what parse_u32 returned; result.position is the cursor the caller
\* passes on, which parse_u32 has already advanced when it succeeded.
validate_range(result, min, max, length) ==
    IF result.ok /\ result.value < min
    THEN Err(invalid_low_value(result.position, length), result.position)
    ELSE IF result.ok /\ result.value > max
    THEN Err(invalid_high_value(result.position, length), result.position)
    ELSE result

parse_month_number(str, position) ==
    validate_range(parse_u32(str, position, FieldWidth, "InvalidMonth"), 1, 12, FieldWidth)

parse_day_number(str, position) ==
    validate_range(parse_u32(str, position, FieldWidth, "InvalidDay"), 1, 31, FieldWidth)

parse_hour_24(str, position) ==
    validate_range(parse_u32(str, position, FieldWidth, "InvalidHour"), 0, 23, FieldWidth)

parse_hour_timezone(str, position) ==
    validate_range(parse_u32(str, position, FieldWidth, "InvalidHour"), 0, 12, FieldWidth)

parse_minute(str, position) ==
    validate_range(parse_u32(str, position, FieldWidth, "InvalidMinute"), 0, 59, FieldWidth)

parse_seconds(str, position) ==
    validate_range(parse_u32(str, position, FieldWidth, "InvalidSeconds"), 0, 59, FieldWidth)

RECURSIVE Pow10(_)
Pow10(k) == IF k = 0 THEN 1 ELSE 10 * Pow10(k - 1)

\* the length of the maximal run of decimal digits of str that starts at the
\* 0-based offset position (the for loop of parse_nanosecond)
RECURSIVE DigitRun(_, _)
DigitRun(str, position) ==
    IF position < Len(str) /\ is_digit(str[position + 1])
    THEN 1 + DigitRun(str, position + 1)
    ELSE 0

\* u32::MAX / 10: value * 10^k overflows u32 iff k >= 1 and
\* value > (u32::MAX / 10) / 10^(k-1)
U32MaxDiv10 == 429496729

U32MulPow10Overflows(value, k) ==
    k >= 1 /\ value > U32MaxDiv10 \div Pow10(k - 1)

\* parse_nanosecond that scales by 10^length instead of 10^(9 - length)
parse_nanosecond_wrong_scale(str, position) ==
    LET length == DigitRun(str, position)
        r == ParseU32Text(get_text(str, position, position + length))
    IN  IF Len(str) >= position /\ length > 0 /\ length <= MaxNanoDigits /\ r.ok
        THEN Ok(r.value * Pow10(length), position + length)
        ELSE Err(ParseError_invalid("InvalidNanoseconds", position, length), position)

parse_nanosecond(str, position) ==
    LET length == DigitRun(str, position)
        r == ParseU32Text(get_text(str, position, position + length))
    IN  IF Len(str) >= position /\ length > 0 /\ length <= MaxNanoDigits /\ r.ok
        THEN Ok(r.value * Pow10(MaxNanoDigits - length), position + length)
        ELSE Err(ParseError_invalid("InvalidNanoseconds", position, length), position)

\* parse_token that, like parse_token_or_end, lets the end of the input pass
parse_token_end_passes(str, position, token) ==
    LET length == Len(token)
    IN  IF Len(str) >= position + length
        THEN IF get_text(str, position, position + length) = token
             THEN Ok(TRUE, position + length)
             ELSE Err(invalid_token(position, length), position)
        ELSE Ok(TRUE, position)

parse_token(str, position, token) ==
    LET length == Len(token)
    IN  IF Len(str) >= position + length
           /\ get_text(str, position, position + length) = token
        THEN Ok(TRUE, position + length)
        ELSE Err(invalid_token(position, length), position)

\* parse_token_or_end with the two outcomes exchanged: a mismatch reports the
\* token absent, the end of the input is an error
parse_token_or_end_swapped(str, position, token) ==
    LET length == Len(token)
    IN  IF Len(str) >= position + length
        THEN IF get_text(str, position, position + length) = token
             THEN Ok(TRUE, position + length)
             ELSE Ok(FALSE, position)
        ELSE Err(invalid_token(position, length), position)

parse_token_or_end(str, position, token) ==
    LET length == Len(token)
    IN  IF Len(str) >= position + length
        THEN IF get_text(str, position, position + length) = token
             THEN Ok(TRUE, position + length)
             ELSE Err(invalid_token(position, length), position)
        ELSE Ok(FALSE, position)

parse_is_token(str, position, token) ==
    LET length == Len(token)
    IN  IF Len(str) >= position + length
        THEN IF get_text(str, position, position + length) = token
             THEN Ok(TRUE, position + length)
             ELSE Ok(FALSE, position)
        ELSE Err(invalid_token(position, length), position)

\* parse_end_of_string that accepts one unconsumed character
parse_end_of_string_off_by_one(str, position) ==
    IF Len(str) <= position + 1
    THEN Ok(TRUE, position)
    ELSE Err(ParseError_invalid("StringNotEnded", position, 0), position)

parse_end_of_string(str, position) ==
    IF Len(str) = position
    THEN Ok(TRUE, position)
    ELSE Err(ParseError_invalid("StringNotEnded", position, 0), position)

\* FixedOffset is modelled by its local_minus_utc() in seconds:
\* FixedOffset::east(n) is n, FixedOffset::west(n) is -n.
parse_tzd(str, position) ==
    LET z == parse_is_token(str, position, <<"Z">>)
        plus == parse_is_token(str, z.position, <<"+">>)
        minus == parse_is_token(str, plus.position, <<"-">>)
        hour == parse_hour_timezone(str, minus.position)
        colon == parse_token(str, hour.position, <<":">>)
        minute == parse_minute(str, colon.position)
        offset == hour.value * 60 * 60 + minute.value * 60
    IN  IF ~z.ok THEN Err(z.error, z.position)
        ELSE IF z.value THEN Ok(0, z.position)
        ELSE IF ~plus.ok THEN Err(plus.error, plus.position)
        ELSE IF ~minus.ok THEN Err(minus.error, minus.position)
        ELSE IF plus.value \/ minus.value
        THEN IF ~hour.ok THEN Err(hour.error, hour.position)
             ELSE IF ~colon.ok THEN Err(colon.error, colon.position)
             ELSE IF ~minute.ok THEN Err(minute.error, minute.position)
             ELSE IF minus.value THEN Ok(0 - offset, minute.position)
             ELSE Ok(offset, minute.position)
        ELSE Err(invalid_token(minus.position, 1), minus.position)

----------------------------------------------------------------------------
(* Calendar values of chrono, as far as the driver and the formatter use    *)
(* them: date and time validity, the UTC instant and its local view.        *)

\* the Julian rule: every fourth year is a leap year
IsLeapYear_julian(year) == year % 4 = 0

IsLeapYear(year) == year % 4 = 0 /\ (year % 100 # 0 \/ year % 400 = 0)

DaysInMonth(year, month) ==
    IF month = 2 THEN (IF IsLeapYear(year) THEN 29 ELSE 28)
    ELSE IF month \in {4, 6, 9, 11} THEN 30
    ELSE 31

\* NaiveDate::from_ymd_opt(year, month, day).is_some(); the four-character
\* year is always inside chrono's year range
from_ymd_opt(year, month, day) ==
    month \in 1..12 /\ day \in 1..DaysInMonth(year, month)

\* NaiveTime::from_hms_nano_opt(hour, min, sec, nano).is_some()
from_hms_nano_opt(hour, minute, seconds, nanosecond) ==
    hour < 24 /\ minute < 60 /\ seconds < 60 /\ nanosecond < 2000000000

SecondsPerDay == 86400

\* the number of the day year-month-day, counted from 1970-01-01
\* (proleptic Gregorian calendar)
DaysFromCivil(year, month, day) ==
    LET y == IF month <= 2 THEN year - 1 ELSE year
        era == y \div 400
        yoe == y - era * 400
        mp == IF month > 2 THEN month - 3 ELSE month + 9
        doy == (153 * mp + 2) \div 5 + day - 1
        doe == yoe * 365 + yoe \div 4 - yoe \div 100 + doy
    IN  era * 146097 + doe - 719468

\* the inverse of DaysFromCivil
CivilFromDays(days) ==
    LET z == days + 719468
        era == z \div 146097
        doe == z - era * 146097
        yoe == (doe - doe \div 1460 + doe \div 36524 - doe \div 146096) \div 365
        doy == doe - (365 * yoe + yoe \div 4 - yoe \div 100)
        mp == (5 * doy + 2) \div 153
        d == doy - (153 * mp + 2) \div 5 + 1
        m == IF mp < 10 THEN mp + 3 ELSE mp - 9
    IN  [year |-> IF m <= 2 THEN yoe + era * 400 + 1 ELSE yoe + era * 400,
         month |-> m, day |-> d]

\* date.and_time(time).checked_sub(offset.local_minus_utc()) followed by
\* DateTime::from_utc(_, offset): the stored instant is UTC, kept with the offset
DateTime_from_local(year, month, day, hour, minute, seconds, nanosecond, offset) ==
    LET total == hour * 3600 + minute * 60 + seconds - offset
    IN  [days |-> DaysFromCivil(year, month, day) + total \div SecondsPerDay,
         secs |-> total % SecondsPerDay,
         nanosecond |-> nanosecond,
         offset |-> offset]

\* naive_local without the offset: the formatter prints the UTC clock reading
naive_local_utc(datetime) ==
    LET date == CivilFromDays(datetime.days)
    IN  [year |-> date.year, month |-> date.month, day |-> date.day,
         hour |-> datetime.secs \div 3600, minute |-> (datetime.secs % 3600) \div 60,
         seconds |-> datetime.secs % 60, nanosecond |-> datetime.nanosecond]

\* the local date and time the formatter prints: the UTC instant plus the offset
naive_local(datetime) ==
    LET total == datetime.secs + datetime.offset
        date == CivilFromDays(datetime.days + total \div SecondsPerDay)
        sod == total % SecondsPerDay
    IN  [year |-> date.year, month |-> date.month, day |-> date.day,
         hour |-> sod \div 3600, minute |-> (sod % 3600) \div 60,
         seconds |-> sod % 60, nanosecond |-> datetime.nanosecond]

----------------------------------------------------------------------------
(* Formatter (format_w3c.rs)                                                *)

RECURSIVE ZeroPad(_, _)
\* {:0width$}: the decimal digits of n >= 0, zero-padded to at least width
ZeroPad(n, width) ==
    IF n < 10 /\ width <= 1 THEN <<DigitChars[n + 1]>>
    ELSE Append(ZeroPad(n \div 10, width - 1), DigitChars[(n % 10) + 1])

\* %Y: four digits, and a sign when the year is outside 0..9999
FormatYear(year) ==
    IF year >= 0 /\ year <= 9999 THEN ZeroPad(year, 4)
    ELSE IF year < 0 THEN <<"-">> \o ZeroPad(0 - year, 4)
    ELSE <<"+">> \o ZeroPad(year, 4)

\* %.f: nothing, or a dot and 3, 6 or 9 digits, the fewest of these that
\* print the nanoseconds exactly
FormatDotF(nanosecond) ==
    IF nanosecond = 0 THEN <<>>
    ELSE IF nanosecond % 1000000 = 0 THEN <<".">> \o ZeroPad(nanosecond \div 1000000, 3)
    ELSE IF nanosecond % 1000 = 0 THEN <<".">> \o ZeroPad(nanosecond \div 1000, 6)
    ELSE <<".">> \o ZeroPad(nanosecond, 9)

Abs(n) == IF n < 0 THEN 0 - n ELSE n

\* the zone suffix format_w3c appends to the format string
FormatOffset(offset) ==
    IF offset = 0 THEN <<"Z">>
    ELSE LET sign == IF offset >= 0 THEN "+" ELSE "-"
             hour == Abs(offset) \div 3600
             offset_seconds == Abs(offset) - hour * 3600
             minute == offset_seconds \div 60
         IN  <<sign>> \o ZeroPad(hour, 2) \o <<":">> \o ZeroPad(minute, 2)

format_w3c(datetime) ==
    LET t == naive_local(datetime)
    IN  FormatYear(t.year) \o <<"-">> \o ZeroPad(t.month, 2) \o <<"-">> \o ZeroPad(t.day, 2)
        \o <<"T">> \o ZeroPad(t.hour, 2) \o <<":">> \o ZeroPad(t.minute, 2)
        \o <<":">> \o ZeroPad(t.seconds, 2)
        \o (IF t.nanosecond > 0 THEN FormatDotF(t.nanosecond) ELSE <<>>)
        \o FormatOffset(datetime.offset)

----------------------------------------------------------------------------
(* Datetime grammar driver (parse_w3c_datetime.rs)                          *)

NoDateTime == [days |-> 0, secs |-> 0, nanosecond |-> 0, offset |-> 0]

NoResult == [status |-> "none", datetime |-> NoDateTime, error |-> NoError]

Success(datetime) == [status |-> "ok", datetime |-> datetime, error |-> NoError]

Failure(error) == [status |-> "err", datetime |-> NoDateTime, error |-> error]

\* the calendar resolution that ends the driver.  checked_sub fails only at
\* the limits of chrono's range, which no four-character year comes near.
resolve(year, month, day, hour, minute, seconds, nanosecond, offset, length) ==
    IF from_ymd_opt(year, month, day)
       /\ from_hms_nano_opt(hour, minute, seconds, nanosecond)
    THEN Success(DateTime_from_local(year, month, day, hour, minute, seconds,
                                     nanosecond, offset))
    ELSE Failure(invalid_format(0, length))

\* the whole driver as a function of its input
parse_w3c_datetime(str) ==
    LET y == parse_full_year(str, 0)
        dash1 == parse_token(str, y.position, <<"-">>)
        mo == parse_month_number(str, dash1.position)
        dash2 == parse_token(str, mo.position, <<"-">>)
        d == parse_day_number(str, dash2.position)
        t == parse_token_or_end(str, d.position, <<"T">>)
        h == parse_hour_24(str, t.position)
        colon1 == parse_token(str, h.position, <<":">>)
        mi == parse_minute(str, colon1.position)
        colon2 == parse_is_token(str, mi.position, <<":">>)
        s == parse_seconds(str, colon2.position)
        dot == parse_is_token(str, s.position, <<".">>)
        ns == parse_nanosecond(str, dot.position)
        tz == parse_tzd(str, IF ~colon2.value THEN colon2.position
                             ELSE IF dot.value THEN ns.position
                             ELSE dot.position)
        e == parse_end_of_string(str, IF t.value THEN tz.position ELSE t.position)
        timed == IF ~h.ok THEN Failure(h.error)
                 ELSE IF ~colon1.ok THEN Failure(colon1.error)
                 ELSE IF ~mi.ok THEN Failure(mi.error)
                 ELSE IF ~colon2.ok THEN Failure(colon2.error)
                 ELSE IF colon2.value /\ ~s.ok THEN Failure(s.error)
                 ELSE IF colon2.value /\ ~dot.ok THEN Failure(dot.error)
                 ELSE IF colon2.value /\ dot.value /\ ~ns.ok THEN Failure(ns.error)
                 ELSE IF ~tz.ok THEN Failure(tz.error)
                 ELSE IF ~e.ok THEN Failure(e.error)
                 ELSE resolve(y.value, mo.value, d.value, h.value, mi.value,
                              IF colon2.value THEN s.value ELSE 0,
                              IF colon2.value /\ dot.value THEN ns.value ELSE 0,
                              tz.value, Len(str))
    IN  IF ~y.ok THEN Failure(y.error)
        ELSE IF ~dash1.ok THEN Failure(dash1.error)
        ELSE IF ~mo.ok THEN Failure(mo.error)
        ELSE IF ~dash2.ok THEN Failure(dash2.error)
        ELSE IF ~d.ok THEN Failure(d.error)
        ELSE IF ~t.ok THEN Failure(t.error)
        ELSE IF t.value THEN timed
        ELSE IF ~e.ok THEN Failure(e.error)
        ELSE resolve(y.value, mo.value, d.value, 0, 0, 0, 0, 0, Len(str))

----------------------------------------------------------------------------
(* The inputs the parser is run on.  An input is a base text, cut into its  *)
(* seventeen grammar segments, with at most one segment replaced by another *)
(* text and a tail appended; or a base text truncated at any length.        *)

MaxTail == 2
MaxDigitRun == 11

TwoDigits(n) == ZeroPad(n, 2)

RECURSIVE Repeat(_, _)
Repeat(c, n) == IF n = 0 THEN <<>> ELSE <<c>> \o Repeat(c, n - 1)

RECURSIVE FlattenFrom(_, _)
FlattenFrom(segments, i) ==
    IF i > 17 THEN <<>> ELSE segments[i] \o FlattenFrom(segments, i + 1)

Flatten(segments) == FlattenFrom(segments, 1)

\* year - month - day T hour : minute : seconds . fraction sign hour : minute
Segments(y, mo, d, h, mi, s, f, sign, zh, zm) ==
    <<y, <<"-">>, mo, <<"-">>, d, <<"T">>, h, <<":">>, mi, <<":">>, s,
      <<".">>, f, sign, zh, <<":">>, zm>>

NoSeconds(segments) ==
    [i \in 1..17 |-> IF i \in 10..13 THEN <<>> ELSE segments[i]]

NoFraction(segments) ==
    [i \in 1..17 |-> IF i \in 12..13 THEN <<>> ELSE segments[i]]

Zulu(segments) ==
    [i \in 1..17 |-> IF i = 14 THEN <<"Z">> ELSE IF i \in 15..17 THEN <<>> ELSE segments[i]]

DateOnly(segments) ==
    [i \in 1..17 |-> IF i > 5 THEN <<>> ELSE segments[i]]

Bases ==
    LET b1 == Segments(ZeroPad(2015, 4), TwoDigits(1), TwoDigits(20), TwoDigits(17),
                       TwoDigits(35), TwoDigits(20), <<"4", "5", "2">>,
                       <<"-">>, TwoDigits(8), TwoDigits(0))
        b2 == Segments(ZeroPad(2015, 4), TwoDigits(3), TwoDigits(4), TwoDigits(15),
                       TwoDigits(34), TwoDigits(45), <<"0", "0", "8">>,
                       <<"+">>, TwoDigits(5), TwoDigits(0))
        b3 == Segments(ZeroPad(2016, 4), TwoDigits(2), TwoDigits(29), TwoDigits(23),
                       TwoDigits(59), TwoDigits(59), <<"0", "0", "0", "0", "3", "1">>,
                       <<"+">>, TwoDigits(12), TwoDigits(59))
        b4 == Segments(ZeroPad(1944, 4), TwoDigits(6), TwoDigits(6), TwoDigits(4),
                       TwoDigits(4), TwoDigits(0), <<"5">>,
                       <<"-">>, TwoDigits(0), TwoDigits(30))
        b5 == Segments(ZeroPad(2015, 4), TwoDigits(1), TwoDigits(31), TwoDigits(0),
                       TwoDigits(0), TwoDigits(0), <<"0", "0", "0", "0", "0", "0", "0", "0", "4">>,
                       <<"-">>, TwoDigits(8), TwoDigits(0))
    IN  {b1, NoFraction(b1), Zulu(b2), Zulu(NoFraction(b2)), NoSeconds(b2),
         DateOnly(b2), b3, Zulu(NoSeconds(b3)), b4, NoFraction(b4),
         Zulu(b5), DateOnly(b5)}

DigitRuns ==
    {Repeat(c, n) : c \in {"0", "9"}, n \in 0..MaxDigitRun}
    \cup {Repeat("0", n) \o <<"4">> : n \in 1..(MaxDigitRun - 1)}
    \cup {<<"5">>, <<"5", "0">>, <<"1", "0", "0">>, <<"4", "5", "2">>,
          <<"1", "0", "0", "0", "0", "0">>, <<"0", "0", "0", "0", "3", "1">>,
          <<"0", "0", "0", "0", "0", "0", "0", "0", "0", "4", "5", "2">>,
          <<"4", "5", "a">>}

Separators == {<<>>, <<"-">>, <<":">>, <<".">>, <<"T">>}

Alternatives(i) ==
    CASE i = 1 -> {ZeroPad(2015, 4), ZeroPad(2016, 4), ZeroPad(1900, 4), ZeroPad(2000, 4),
                   ZeroPad(9999, 4), ZeroPad(0, 4), <<"+", "2", "0", "1">>,
                   <<"-", "0", "0", "4">>, <<"2", "0", "a", "5">>, <<"2", "0", "1">>,
                   <<"-", "-", "0", "4">>}
      [] i = 3 -> {TwoDigits(n) : n \in {0, 2, 4, 12, 13}}
                  \cup {<<"3">>, <<"+", "1">>, <<"-", "1">>, <<"a", "1">>}
      [] i = 5 -> {TwoDigits(n) : n \in {0, 1, 28, 29, 30, 31, 32}}
                  \cup {<<"4">>, <<"+", "4">>}
      [] i = 6 -> {<<>>, <<"Z">>, <<"t">>, <<"s">>}
      [] i = 7 -> {TwoDigits(n) : n \in {0, 23, 24, 25}} \cup {<<"5">>, <<"+", "5">>}
      [] i = 9 -> {TwoDigits(n) : n \in {0, 59, 60, 65}} \cup {<<"4">>, <<"+", "4">>}
      [] i = 11 -> {TwoDigits(n) : n \in {0, 59, 60, 90}} \cup {<<"4">>, <<"+", "4">>, <<>>}
      [] i = 13 -> DigitRuns
      [] i = 14 -> {<<"Z">>, <<"+">>, <<"-">>, <<"z">>, <<>>, <<"+", "-">>, <<"-", "+">>}
      [] i = 15 -> {TwoDigits(n) : n \in {0, 12, 13, 24}} \cup {<<"8">>, <<"+", "8">>}
      [] i = 17 -> {TwoDigits(n) : n \in {0, 30, 59, 60}} \cup {<<"+", "3">>, <<>>}
      [] OTHER -> Separators

Deviations ==
    UNION {{Flatten([b EXCEPT ![i] = a]) : a \in Alternatives(i)} :
           b \in Bases, i \in 1..17}

TailChars == {"s", "T"}

RECURSIVE TailsOfLength(_)
TailsOfLength(n) ==
    IF n = 0 THEN {<<>>}
    ELSE {Append(t, c) : t \in TailsOfLength(n - 1), c \in TailChars}

Tails == UNION {TailsOfLength(n) : n \in 0..MaxTail}

Prefixes(text) == {SubSeq(text, 1, k) : k \in 0..Len(text)}

Truncations == UNION {Prefixes(Flatten(b)) : b \in Bases}

Inputs == {x \o t : x \in Deviations, t \in Tails} \cup Truncations

----------------------------------------------------------------------------
(* One call of parse_w3c_datetime, followed by format_w3c on its result as  *)
(* test_w3c does.  pc is the call site of the driver; when a try! returns   *)
(* an error, result is set and pc stays at the call that failed.            *)

VARIABLES str, position, pc, year, month, day, hour, minute, seconds,
          nanosecond, offset, result, formatted

vars == <<str, position, pc, year, month, day, hour, minute, seconds,
          nanosecond, offset, result, formatted>>

Running == result.status = "none"

Init ==
    /\ str \in Inputs
    /\ position = 0
    /\ pc = "year"
    /\ year = 0
    /\ month = 0
    /\ day = 0
    /\ hour = 0
    /\ minute = 0
    /\ seconds = 0
    /\ nanosecond = 0
    /\ offset = 0
    /\ result = NoResult
    /\ formatted = <<>>

ParseFullYear ==
    /\ Running
    /\ pc = "year"
    /\ LET r == parse_full_year(str, position)
       IN  /\ position' = r.position
           /\ pc' = IF r.ok THEN ("dash1") ELSE pc
           /\ result' = IF r.ok THEN result ELSE Failure(r.error)
           /\ year' = IF r.ok THEN r.value ELSE year
    /\ UNCHANGED <<str, month, day, hour, minute, seconds, nanosecond, offset, formatted>>

ParseTokenDash1 ==
    /\ Running
    /\ pc = "dash1"
    /\ LET r == parse_token(str, position, <<"-">>)
       IN  /\ position' = r.position
           /\ pc' = IF r.ok THEN ("month") ELSE pc
           /\ result' = IF r.ok THEN result ELSE Failure(r.error)
    /\ UNCHANGED <<str, year, month, day, hour, minute, seconds, nanosecond, offset, formatted>>

ParseMonthNumber ==
    /\ Running
    /\ pc = "month"
    /\ LET r == parse_month_number(str, position)
       IN  /\ position' = r.position
           /\ pc' = IF r.ok THEN ("dash2") ELSE pc
           /\ result' = IF r.ok THEN result ELSE Failure(r.error)
           /\ month' = IF r.ok THEN r.value ELSE month
    /\ UNCHANGED <<str, year, day, hour, minute, seconds, nanosecond, offset, formatted>>

ParseTokenDash2 ==
    /\ Running
    /\ pc = "dash2"
    /\ LET r == parse_token(str, position, <<"-">>)
       IN  /\ position' = r.position
           /\ pc' = IF r.ok THEN ("day") ELSE pc
           /\ result' = IF r.ok THEN result ELSE Failure(r.error)
    /\ UNCHANGED <<str, year, month, day, hour, minute, seconds, nanosecond, offset, formatted>>

ParseDayNumber ==
    /\ Running
    /\ pc = "day"
    /\ LET r == parse_day_number(str, position)
       IN  /\ position' = r.position
           /\ pc' = IF r.ok THEN ("T") ELSE pc
           /\ result' = IF r.ok THEN result ELSE Failure(r.error)
           /\ day' = IF r.ok THEN r.value ELSE day
    /\ UNCHANGED <<str, year, month, hour, minute, seconds, nanosecond, offset, formatted>>

ParseTokenOrEndT ==
    /\ Running
    /\ pc = "T"
    /\ LET r == parse_token_or_end(str, position, <<"T">>)
       IN  /\ position' = r.position
           /\ pc' = IF r.ok THEN (IF r.value THEN "hour" ELSE "end") ELSE pc
           /\ result' = IF r.ok THEN result ELSE Failure(r.error)
    /\ UNCHANGED <<str, year, month, day, hour, minute, seconds, nanosecond, offset, formatted>>

ParseHour24 ==
    /\ Running
    /\ pc = "hour"
    /\ LET r == parse_hour_24(str, position)
       IN  /\ position' = r.position
           /\ pc' = IF r.ok THEN ("colon1") ELSE pc
           /\ result' = IF r.ok THEN result ELSE Failure(r.error)
           /\ hour' = IF r.ok THEN r.value ELSE hour
    /\ UNCHANGED <<str, year, month, day, minute, seconds, nanosecond, offset, formatted>>

ParseTokenColon ==
    /\ Running
    /\ pc = "colon1"
    /\ LET r == parse_token(str, position, <<":">>)
       IN  /\ position' = r.position
           /\ pc' = IF r.ok THEN ("minute") ELSE pc
           /\ result' = IF r.ok THEN result ELSE Failure(r.error)
    /\ UNCHANGED <<str, year, month, day, hour, minute, seconds, nanosecond, offset, formatted>>

ParseMinute ==
    /\ Running
    /\ pc = "minute"
    /\ LET r == parse_minute(str, position)
       IN  /\ position' = r.position
           /\ pc' = IF r.ok THEN ("colon2") ELSE pc
           /\ result' = IF r.ok THEN result ELSE Failure(r.error)
           /\ minute' = IF r.ok THEN r.value ELSE minute
    /\ UNCHANGED <<str, year, month, day, hour, seconds, nanosecond, offset, formatted>>

ParseIsTokenColon ==
    /\ Running
    /\ pc = "colon2"
    /\ LET r == parse_is_token(str, position, <<":">>)
       IN  /\ position' = r.position
           /\ pc' = IF r.ok THEN (IF r.value THEN "seconds" ELSE "tzd") ELSE pc
           /\ result' = IF r.ok THEN result ELSE Failure(r.error)
    /\ UNCHANGED <<str, year, month, day, hour, minute, seconds, nanosecond, offset, formatted>>

ParseSeconds ==
    /\ Running
    /\ pc = "seconds"
    /\ LET r == parse_seconds(str, position)
       IN  /\ position' = r.position
           /\ pc' = IF r.ok THEN ("dot") ELSE pc
           /\ result' = IF r.ok THEN result ELSE Failure(r.error)
           /\ seconds' = IF r.ok THEN r.value ELSE seconds
    /\ UNCHANGED <<str, year, month, day, hour, minute, nanosecond, offset, formatted>>

ParseIsTokenDot ==
    /\ Running
    /\ pc = "dot"
    /\ LET r == parse_is_token(str, position, <<".">>)
       IN  /\ position' = r.position
           /\ pc' = IF r.ok THEN (IF r.value THEN "nanosecond" ELSE "tzd") ELSE pc
           /\ result' = IF r.ok THEN result ELSE Failure(r.error)
    /\ UNCHANGED <<str, year, month, day, hour, minute, seconds, nanosecond, offset, formatted>>

ParseNanosecond ==
    /\ Running
    /\ pc = "nanosecond"
    /\ LET r == parse_nanosecond(str, position)
       IN  /\ position' = r.position
           /\ pc' = IF r.ok THEN ("tzd") ELSE pc
           /\ result' = IF r.ok THEN result ELSE Failure(r.error)
           /\ nanosecond' = IF r.ok THEN r.value ELSE nanosecond
    /\ UNCHANGED <<str, year, month, day, hour, minute, seconds, offset, formatted>>

ParseTzd ==
    /\ Running
    /\ pc = "tzd"
    /\ LET r == parse_tzd(str, position)
       IN  /\ position' = r.position
           /\ pc' = IF r.ok THEN ("end") ELSE pc
           /\ result' = IF r.ok THEN result ELSE Failure(r.error)
           /\ offset' = IF r.ok THEN r.value ELSE offset
    /\ UNCHANGED <<str, year, month, day, hour, minute, seconds, nanosecond, formatted>>

ParseEndOfString ==
    /\ Running
    /\ pc = "end"
    /\ LET r == parse_end_of_string(str, position)
       IN  /\ position' = r.position
           /\ pc' = IF r.ok THEN ("resolve") ELSE pc
           /\ result' = IF r.ok THEN result ELSE Failure(r.error)
    /\ UNCHANGED <<str, year, month, day, hour, minute, seconds, nanosecond, offset, formatted>>

Resolve ==
    /\ Running
    /\ pc = "resolve"
    /\ result' = resolve(year, month, day, hour, minute, seconds, nanosecond,
                         offset, Len(str))
    /\ pc' = "returned"
    /\ UNCHANGED <<str, position, year, month, day, hour, minute, seconds, nanosecond, offset, formatted>>

FormatW3c ==
    /\ result.status = "ok"
    /\ pc = "returned"
    /\ formatted' = format_w3c(result.datetime)
    /\ pc' = "formatted"
    /\ UNCHANGED <<str, position, year, month, day, hour, minute, seconds, nanosecond, offset, result>>

Next ==
    \/ ParseFullYear
    \/ ParseTokenDash1
    \/ ParseMonthNumber
    \/ ParseTokenDash2
    \/ ParseDayNumber
    \/ ParseTokenOrEndT
    \/ ParseHour24
    \/ ParseTokenColon
    \/ ParseMinute
    \/ ParseIsTokenColon
    \/ ParseSeconds
    \/ ParseIsTokenDot
    \/ ParseNanosecond
    \/ ParseTzd
    \/ ParseEndOfString
    \/ Resolve
    \/ FormatW3c

Spec == Init /\ [][Next]_vars

\* the run has ended: the driver has returned
Returned == result.status # "none"

\* the driver has returned an error of this kind over this span
Failed(kind, begin, end) ==
    /\ result.status = "err"
    /\ result.error = [error_kind |-> kind, position_begin |-> begin, position_end |-> end]

\* the step-by-step run and the driver as a function agree
DriverAgrees == Returned => result = parse_w3c_datetime(str)

----------------------------------------------------------------------------
(* Canonical texts                                                          *)

DigitsAt(text, from, to) ==
    /\ Len(text) >= to
    /\ \A i \in from..to : is_digit(text[i])

CharAt(text, i, c) == Len(text) >= i /\ text[i] = c

\* YYYY-MM-DDThh:mm:ss, every field of decimal digits at its full width
CanonicalDateTime(text) ==
    /\ DigitsAt(text, 1, 4) /\ CharAt(text, 5, "-")
    /\ DigitsAt(text, 6, 7) /\ CharAt(text, 8, "-")
    /\ DigitsAt(text, 9, 10) /\ CharAt(text, 11, "T")
    /\ DigitsAt(text, 12, 13) /\ CharAt(text, 14, ":")
    /\ DigitsAt(text, 15, 16) /\ CharAt(text, 17, ":")
    /\ DigitsAt(text, 18, 19)

\* "Z", or +hh:mm / -hh:mm that is not a zero offset, and nothing after it
CanonicalZone(text) ==
    \/ text = <<"Z">>
    \/ /\ Len(text) = 6
       /\ text[1] \in {"+", "-"}
       /\ DigitsAt(text, 2, 3) /\ text[4] = ":" /\ DigitsAt(text, 5, 6)
       /\ DigitsValue(SubSeq(text, 2, 3)) + DigitsValue(SubSeq(text, 5, 6)) > 0

\* the digits of the fraction of a canonical text: none when there is no "."
FractionDigits(text) ==
    IF CharAt(text, 20, ".") THEN DigitRun(text, 20) ELSE 0

\* canonical form: zero-padded fields, seconds present, "Z" or a non-zero
\* explicit offset, and a fraction only when it is nonzero
CanonicalForm(text) ==
    /\ CanonicalDateTime(text)
    /\ IF CharAt(text, 20, ".")
       THEN /\ FractionDigits(text) >= 1
            /\ DigitsValue(SubSeq(text, 21, 20 + FractionDigits(text))) > 0
            /\ CanonicalZone(SubSeq(text, 21 + FractionDigits(text), Len(text)))
       ELSE CanonicalZone(SubSeq(text, 20, Len(text)))

\* the fraction is written as %.f writes it: 3, 6 or 9 digits, and with 6 or
\* 9 digits the last three are not all zero
ShortestFraction(text) ==
    LET n == FractionDigits(text)
    IN  \/ n = 0
        \/ n = 3
        \/ /\ n \in {6, 9}
           /\ DigitsValue(SubSeq(text, 20 + n - 2, 20 + n)) > 0

----------------------------------------------------------------------------
(* Claims                                                                   *)

\* C1 as stated: every accepted input in canonical form is reproduced by
\* format_w3c character for character, whatever the length (1 to 9 digits) of
\* its fraction.
C1_RoundTripAnyFraction ==
    (pc = "formatted" /\ CanonicalForm(str)) => formatted = str

\* C1 amended: every accepted input in canonical form whose fraction, if any,
\* has 3, 6 or 9 digits (the fewest of these that hold it) is reproduced by
\* format_w3c character for character.
C1_RoundTrip ==
    (pc = "formatted" /\ CanonicalForm(str) /\ ShortestFraction(str)) => formatted = str

C1_Witness ==
    /\ pc = "formatted"
    /\ CanonicalForm(str)
    /\ FractionDigits(str) = 9
    /\ result.datetime.offset < 0
    /\ formatted = str

\* The scanner calls the next step of the driver makes from the current
\* state: the cursor before the call, what the call returns, and the bounds
\* of the field when it is a bounded two-character field.
Call(name, before, r, min, max) ==
    [name |-> name, before |-> before, ok |-> r.ok, after |-> r.position,
     error |-> r.error, min |-> min, max |-> max]

Unbounded == 0 - 1

TzdCalls ==
    LET z == parse_is_token(str, position, <<"Z">>)
        plus == parse_is_token(str, z.position, <<"+">>)
        minus == parse_is_token(str, plus.position, <<"-">>)
        h == parse_hour_timezone(str, minus.position)
        colon == parse_token(str, h.position, <<":">>)
        mi == parse_minute(str, colon.position)
        signed == z.ok /\ ~z.value /\ plus.ok /\ minus.ok /\ (plus.value \/ minus.value)
    IN  {Call("parse_is_token", position, z, Unbounded, Unbounded)}
        \cup (IF z.ok /\ ~z.value
              THEN {Call("parse_is_token", z.position, plus, Unbounded, Unbounded)}
              ELSE {})
        \cup (IF z.ok /\ ~z.value /\ plus.ok
              THEN {Call("parse_is_token", plus.position, minus, Unbounded, Unbounded)}
              ELSE {})
        \cup (IF signed
              THEN {Call("parse_hour_timezone", minus.position, h, 0, 12)}
              ELSE {})
        \cup (IF signed /\ h.ok
              THEN {Call("parse_token", h.position, colon, Unbounded, Unbounded)}
              ELSE {})
        \cup (IF signed /\ h.ok /\ colon.ok
              THEN {Call("parse_minute", colon.position, mi, 0, 59)}
              ELSE {})

ScannerCalls ==
    IF ~Running THEN {}
    ELSE CASE pc = "year" ->
                {Call("parse_full_year", position, parse_full_year(str, position),
                      Unbounded, Unbounded)}
           [] pc \in {"dash1", "dash2"} ->
                {Call("parse_token", position, parse_token(str, position, <<"-">>),
                      Unbounded, Unbounded)}
           [] pc = "month" ->
                {Call("parse_month_number", position, parse_month_number(str, position), 1, 12)}
           [] pc = "day" ->
                {Call("parse_day_number", position, parse_day_number(str, position), 1, 31)}
           [] pc = "T" ->
                {Call("parse_token_or_end", position,
                      parse_token_or_end(str, position, <<"T">>), Unbounded, Unbounded)}
           [] pc = "hour" ->
                {Call("parse_hour_24", position, parse_hour_24(str, position), 0, 23)}
           [] pc = "colon1" ->
                {Call("parse_token", position, parse_token(str, position, <<":">>),
                      Unbounded, Unbounded)}
           [] pc = "minute" ->
                {Call("parse_minute", position, parse_minute(str, position), 0, 59)}
           [] pc = "colon2" ->
                {Call("parse_is_token", position, parse_is_token(str, position, <<":">>),
                      Unbounded, Unbounded)}
           [] pc = "seconds" ->
                {Call("parse_seconds", position, parse_seconds(str, position), 0, 59)}
           [] pc = "dot" ->
                {Call("parse_is_token", position, parse_is_token(str, position, <<".">>),
                      Unbounded, Unbounded)}
           [] pc = "nanosecond" ->
                {Call("parse_nanosecond", position, parse_nanosecond(str, position),
                      Unbounded, Unbounded)}
           [] pc = "tzd" ->
                TzdCalls \cup {Call("parse_tzd", position, parse_tzd(str, position),
                                    Unbounded, Unbounded)}
           [] pc = "end" ->
                {Call("parse_end_of_string", position, parse_end_of_string(str, position),
                      Unbounded, Unbounded)}
           [] OTHER -> {}

\* the two characters at the cursor form an integer outside min..max
OutOfRange(c) ==
    /\ c.min # Unbounded
    /\ Len(str) >= c.before + 2
    /\ LET v == ParseU32Text(get_text(str, c.before, c.before + 2))
       IN  v.ok /\ (v.value < c.min \/ v.value > c.max)

RangeKind(c) ==
    IF ParseU32Text(get_text(str, c.before, c.before + 2)).value < c.min
    THEN "InvalidLowValue" ELSE "InvalidHighValue"

RangeError(c) ==
    [error_kind |-> RangeKind(c), position_begin |-> c.before,
     position_end |-> c.before + 2]

\* C2: a bounded two-character field whose two characters at the pre-scan
\* cursor p form an integer outside the field's range fails with
\* value-too-low or value-too-high and the span [p, p+2), and that error is
\* what the driver returns.
C2_RangeErrorSpan ==
    [][\A c \in ScannerCalls :
          OutOfRange(c) =>
              /\ ~c.ok
              /\ c.error = RangeError(c)
              /\ result' = Failure(RangeError(c))]_vars

\* C9: every scanner call leaves the cursor at its pre-call value when it
\* returns an error, range errors included; a driver step that returns an
\* error leaves the cursor where the failing call found it.
C9_CursorFrame ==
    [][/\ \A c \in ScannerCalls :
             (c.name # "parse_tzd" /\ ~c.ok) => c.after = c.before
       /\ (Running /\ pc # "tzd" /\ result'.status = "err") => position' = position]_vars

\* the lengths of the twelve months of a year, by the Gregorian rule
MonthLengths(y) ==
    <<31, IF y % 400 = 0 \/ (y % 4 = 0 /\ y % 100 # 0) THEN 29 ELSE 28,
      31, 30, 31, 30, 31, 31, 30, 31, 30, 31>>

RealDate(y, m, d) == m \in 1..12 /\ d >= 1 /\ d <= MonthLengths(y)[m]

\* YYYY-MM-DD in decimal digits, naming a real calendar date
ValidDateText(text) ==
    /\ Len(text) = 10
    /\ DigitsAt(text, 1, 4) /\ text[5] = "-"
    /\ DigitsAt(text, 6, 7) /\ text[8] = "-"
    /\ DigitsAt(text, 9, 10)
    /\ RealDate(DigitsValue(SubSeq(text, 1, 4)), DigitsValue(SubSeq(text, 6, 7)),
                DigitsValue(SubSeq(text, 9, 10)))

MidnightZulu == <<"T", "0", "0", ":", "0", "0", ":", "0", "0", "Z">>

DateScanned == pc \notin {"year", "dash1", "month", "dash2", "day"}

\* C3: after the day field, an exhausted input that is a valid YYYY-MM-DD is
\* accepted with hour, minute, second, nanosecond and offset 0 and formats to
\* YYYY-MM-DDT00:00:00Z; a next character other than "T" fails with
\* invalid-token; a remaining input of exactly "T" fails with invalid-hour.
C3_BranchAfterDay ==
    /\ (Returned /\ ValidDateText(str)) =>
          /\ result.status = "ok"
          /\ result.datetime.offset = 0
          /\ LET t == naive_local(result.datetime)
             IN  /\ <<t.hour, t.minute, t.seconds, t.nanosecond>> = <<0, 0, 0, 0>>
                 /\ <<t.year, t.month, t.day>> = <<year, month, day>>
          /\ pc = "formatted" => formatted = str \o MidnightZulu
    /\ (Returned /\ DateScanned /\ Len(str) > 10 /\ str[11] # "T") =>
          Failed("InvalidToken", 10, 11)
    /\ (Returned /\ DateScanned /\ Len(str) = 11 /\ str[11] = "T") =>
          Failed("InvalidHour", 11, 13)

C3_Witness ==
    /\ pc = "formatted"
    /\ ValidDateText(str)
    /\ formatted = str \o MidnightZulu

\* C4 as stated: when a proper prefix X of the input is itself accepted, the
\* input fails with string-not-ended over the empty span at length(X).
C4_TrailingAfterAccepted ==
    Returned =>
        \A k \in 0..(Len(str) - 1) :
            parse_w3c_datetime(SubSeq(str, 1, k)).status = "ok" =>
                Failed("StringNotEnded", k, k)

\* C4 amended: when a proper prefix X of the input is itself accepted and X
\* has a time-of-day section (it is longer than YYYY-MM-DD), the input fails
\* with string-not-ended over the empty span at length(X).
C4_TrailingAfterTimed ==
    Returned =>
        \A k \in 11..(Len(str) - 1) :
            parse_w3c_datetime(SubSeq(str, 1, k)).status = "ok" =>
                Failed("StringNotEnded", k, k)

C4_Witness ==
    /\ Returned
    /\ Len(str) >= 20
    /\ parse_w3c_datetime(SubSeq(str, 1, Len(str) - 2)).status = "ok"
    /\ Failed("StringNotEnded", Len(str) - 2, Len(str) - 2)

\* C5: parse_nanosecond at cursor p, with n the length of the maximal digit
\* run at p and v its value: for 1 <= n <= 9 it yields v * 10^(9-n), below
\* 1,000,000,000 and without 32-bit overflow, and advances the cursor by n;
\* for n = 0 or n > 9 it fails with invalid-nanoseconds over [p, p+n) and
\* leaves the cursor at p.
C5_Nanosecond ==
    [][(Running /\ pc = "nanosecond") =>
          LET n == DigitRun(str, position)
              v == DigitsValue(get_text(str, position, position + n))
          IN  IF n >= 1 /\ n <= 9
              THEN /\ result' = result
                   /\ ~U32MulPow10Overflows(v, 9 - n)
                   /\ nanosecond' = v * Pow10(9 - n)
                   /\ nanosecond' < 1000000000
                   /\ position' = position + n
              ELSE /\ result' = Failure(ParseError_invalid("InvalidNanoseconds",
                                                            position, n))
                   /\ position' = position]_vars

C5_Witness ==
    /\ pc = "tzd"
    /\ Running
    /\ nanosecond = 500000000
    /\ str[position] = "5"
    /\ str[position - 1] = "."

\* C6: an input that passes every scan and the end-of-input check but whose
\* year, month and day are not a real calendar date fails with
\* invalid-format over the whole input, and is never accepted.
C6_CalendarFailure ==
    /\ (pc \in {"returned", "formatted"} /\ ~RealDate(year, month, day)) =>
          Failed("InvalidFormat", 0, Len(str))
    /\ result.status = "ok" => RealDate(year, month, day)

C6_Witness ==
    /\ pc = "returned"
    /\ month = 2
    /\ day = 29
    /\ year % 4 # 0
    /\ Failed("InvalidFormat", 0, Len(str))

\* the kind and the span width of the error of the call at pc when the
\* input ends at the cursor
EndKind ==
    CASE pc = "year" -> "InvalidYear"
      [] pc = "month" -> "InvalidMonth"
      [] pc = "day" -> "InvalidDay"
      [] pc = "hour" -> "InvalidHour"
      [] pc = "minute" -> "InvalidMinute"
      [] pc = "seconds" -> "InvalidSeconds"
      [] pc = "nanosecond" -> "InvalidNanoseconds"
      [] OTHER -> "InvalidToken"

EndWidth ==
    CASE pc = "year" -> 4
      [] pc \in {"month", "day", "hour", "minute", "seconds"} -> 2
      [] pc = "nanosecond" -> 0
      [] OTHER -> 1

Max(a, b) == IF a >= b THEN a ELSE b

\* the result does not depend on the input after the failing token: cutting
\* the input anywhere after it, or adding to it, returns the same error
IndependentOfRest ==
    LET from == Max(result.error.position_end, result.error.position_begin + 1)
    IN  /\ \A k \in from..Len(str) : parse_w3c_datetime(SubSeq(str, 1, k)) = result
        /\ from <= Len(str) =>
              \A c \in TailChars : parse_w3c_datetime(Append(str, c)) = result

\* C7: the error returned is that of the first scanner call that fails, in
\* the order of the driver's calls, and the input after that point does not
\* affect it; an input that ends where a numeric field is expected fails with
\* that field's kind, and one that ends where a literal, an optional-literal
\* probe or the zone designator is expected fails with invalid-token, except
\* directly after the day.
C7_FirstFailureWins ==
    /\ [](Returned /\ result.status = "err" /\ pc \notin {"returned", "formatted"}
            => IndependentOfRest)
    /\ [][/\ (\E c \in ScannerCalls : ~c.ok) =>
                /\ result'.status = "err"
                /\ \E c \in ScannerCalls : ~c.ok /\ c.error = result'.error
          /\ (Running /\ result'.status = "err" /\ pc # "resolve") =>
                /\ \E c \in ScannerCalls : ~c.ok
                /\ pc' = pc
          /\ (Running /\ position = Len(str) /\ pc \notin {"T", "end", "resolve"}) =>
                result' = Failure(ParseError_invalid(EndKind, position, EndWidth))]_vars

C7_Witness ==
    /\ pc = "seconds"
    /\ position = Len(str)
    /\ Failed("InvalidSeconds", Len(str), Len(str) + 2)

\* hh:mm, then optionally :ss, then optionally a fraction of 1 to 9 digits,
\* all in decimal digits; the number of characters up to the zone designator,
\* or 0 when the text has no such time
TimeLength(text) ==
    IF ~(DigitsAt(text, 12, 13) /\ CharAt(text, 14, ":") /\ DigitsAt(text, 15, 16))
    THEN 0
    ELSE IF ~CharAt(text, 17, ":") THEN 16
    ELSE IF ~DigitsAt(text, 18, 19) THEN 0
    ELSE IF ~CharAt(text, 20, ".") THEN 19
    ELSE IF DigitRun(text, 20) \in 1..9 THEN 20 + DigitRun(text, 20)
    ELSE 0

\* Z, +hh:mm or -hh:mm with hh and mm two decimal digits each
ZoneDesignator(text) ==
    \/ text = <<"Z">>
    \/ /\ Len(text) = 6
       /\ text[1] \in {"+", "-"}
       /\ DigitsAt(text, 2, 3) /\ text[4] = ":" /\ DigitsAt(text, 5, 6)

\* YYYY-MM-DD, YYYY-MM-DDThh:mmTZD, YYYY-MM-DDThh:mm:ssTZD or
\* YYYY-MM-DDThh:mm:ss.sTZD
DocumentedShape(text) ==
    /\ Len(text) >= 10
    /\ ParseI32Text(SubSeq(text, 1, 4)).ok /\ text[5] = "-"
    /\ DigitsAt(text, 6, 7) /\ text[8] = "-"
    /\ DigitsAt(text, 9, 10)
    /\ \/ Len(text) = 10
       \/ /\ text[11] = "T"
          /\ TimeLength(text) > 0
          /\ ZoneDesignator(SubSeq(text, TimeLength(text) + 1, Len(text)))

\* C8: only inputs of one of the four documented shapes are accepted, with
\* MM, DD, hh, mm, ss and the zone's hh and mm two decimal digits each, the
\* fraction 1 to 9 digits and YYYY four characters forming an integer
\* literal; the inputs YYYY and YYYY-MM are rejected.
C8_AcceptedLanguage ==
    /\ result.status = "ok" => DocumentedShape(str)
    /\ (Returned /\ Len(str) \in {4, 7}) => result.status = "err"

\* C10: parse_tzd at cursor p either consumes the one character "Z" and
\* yields offset 0, or consumes one sign character, a zone hour hh (0-12),
\* ":" and a minute mm (0-59) and yields +(hh*3600 + mm*60) for '+' and
\* -(hh*3600 + mm*60) for '-'; when the character at p is none of "Z", "+",
\* "-" it fails with invalid-token.
C10_ZoneDesignator ==
    [][(Running /\ pc = "tzd") =>
          /\ result' = result =>
                \/ /\ str[position + 1] = "Z"
                   /\ position' = position + 1
                   /\ offset' = 0
                \/ /\ str[position + 1] \in {"+", "-"}
                   /\ position' = position + 6
                   /\ str[position + 4] = ":"
                   /\ LET hh == ParseU32Text(get_text(str, position + 1, position + 3))
                          mm == ParseU32Text(get_text(str, position + 4, position + 6))
                      IN  /\ hh.ok /\ hh.value <= 12
                          /\ mm.ok /\ mm.value <= 59
                          /\ offset' = IF str[position + 1] = "+"
                                       THEN hh.value * 3600 + mm.value * 60
                                       ELSE 0 - (hh.value * 3600 + mm.value * 60)
          /\ (position < Len(str) /\ str[position + 1] \notin {"Z", "+", "-"}) =>
                /\ result'.status = "err"
                /\ result'.error.error_kind = "InvalidToken"]_vars

\* C11 as stated: the span of every returned error lies inside the input,
\* 0 <= position_begin <= position_end <= length(input).
C11_SpanInsideInput ==
    result.status = "err" =>
        /\ 0 <= result.error.position_begin
        /\ result.error.position_begin <= result.error.position_end
        /\ result.error.position_end <= Len(str)

\* C11 amended: the span of every returned error begins inside the input,
\* 0 <= position_begin <= position_end and position_begin <= length(input);
\* position_end may pass the end of the input, by at most the width of the
\* widest fixed-width token: position_end <= max(length(input),
\* position_begin + 4).
C11_SpanBeginsInsideInput ==
    result.status = "err" =>
        /\ 0 <= result.error.position_begin
        /\ result.error.position_begin <= result.error.position_end
        /\ result.error.position_begin <= Len(str)
        /\ result.error.position_end <= Max(Len(str), result.error.position_begin + YearWidth)

C11_Witness ==
    /\ Failed("InvalidMinute", Len(str), Len(str) + 2)
    /\ pc = "minute"
    /\ Len(str) > 0

====
